---- MODULE Spec2Model ----
(***************************************************************************)
(* ricecooker command line entry point (src/ricecooker/__main__.py):       *)
(* argument validation, mode dispatch, single_run, daemon_mode and the     *)
(* reconnecting WebSocketHandler thread.                                   *)
(*                                                                         *)
(* Two drivers share the state machine.  driver = "program" is the         *)
(* __main__ block, from docopt() on.  driver = "harness" is client code    *)
(* that constructs a WebSocketHandler itself, start()s and join()s it, and *)
(* calls send() and stop() on it from other threads.                       *)
(*                                                                         *)
(* Three more drivers cover what single_run calls into and the example     *)
(* chef.  driver = "pipeline" runs single_run with the steps inside        *)
(* uploadchannel and the persisted session spelled out; driver =           *)
(* "download" is one download with retries; driver = "chef" is             *)
(* examples/oldexamples/large_wikipedia_chef.py: make_fully_qualified_url, *)
(* make_request and get_parsed_html_from_url on the caching session.       *)
(***************************************************************************)
EXTENDS Integers, Sequences, FiniteSets, TLC

VARIABLES
    driver,       \* "program" or "harness"
    mainpc,       \* position of the main thread
    argv,         \* the options given on the command line
    arguments,    \* the dict docopt() returned
    kwargs,       \* the dict built from arguments['OPTIONS']
    mainExc,      \* the exception that left the main thread, "none" if none
    exc,          \* single_run: the exception in flight
    reporter,     \* calls made on config.SUSHI_BAR_CLIENT, in order
    raisedIn,     \* the reporter calls that raised
    uploadCalls,  \* the calls made to uploadchannel (their arguments)
    uploadOutcome,\* how the uploadchannel call ended, "none" before it has
    cws,          \* whether the handler object exists
    ws_opened,    \* WebSocketHandler.ws_opened
    ws,           \* WebSocketHandler.ws: None or a connection object
    conn,         \* state of each connection object
    keep_running, \* WebSocketApp.keep_running of each connection object
    stop_event,   \* WebSocketHandler._stop_event
    looppc,       \* position of the handler thread in run()
    nconn,        \* how many connections __connect() has created (saturating)
    stoppc,       \* position of the thread calling stop()
    stopRef,      \* the object stop() loaded from self.ws
    stopReturned, \* some stop() call has returned normally
    stopRaised,   \* some stop() call has raised
    afterStop,    \* a connection was created after a stop() call had returned
    sendpc,       \* position of the thread calling send()
    sendRef,      \* the object send() loaded from self.ws
    sendData,     \* the message of the send() call in progress
    nsends,       \* how many send() calls have been made
    wire,         \* the messages handed to an open connection
    dropped,      \* the messages of send() calls that found ws_opened false
    offline,      \* the messages of send() calls made while not connected
    sendRaised,   \* the messages whose send() call raised
    sentStale,    \* self.ws.send was called on a connection already closed
                  \* (on_close has run) or not yet open (on_open has not)
    chefpc,       \* position of the chef script (large_wikipedia_chef.py)
    url,          \* the URL handed to make_fully_qualified_url
    qualified,    \* what make_fully_qualified_url(url) gave
    requalified,  \* what make_fully_qualified_url gave for that result
    cache,        \* the FileCache of the session: pairs <<URL, content>>
    fetchLog,     \* the calls of get_parsed_html_from_url, in order
    dlpc,         \* position of a download with retries
    maxAttempts,  \* the download_attempts the download was given
    schedule,     \* how the network answers attempt 1, 2, ...
    attemptsMade, \* the network attempts made so far
    fetchResult,  \* how the download ended, "none" before it has
    persisted,    \* the current step of the session record in the store
    loadedStep,   \* the persisted step when the run had loaded its session
    curStep,      \* the step uploadchannel is at, "none" outside the steps
    lastDone,     \* the last step whose handler returned in this run
    failedStep    \* the step whose handler raised, "none" if none did

mainVars == <<driver, mainpc, argv, arguments, kwargs, mainExc>>
runVars == <<exc, reporter, raisedIn, uploadCalls, uploadOutcome>>
handlerVars == <<cws, ws_opened, ws, conn, keep_running, stop_event, looppc, nconn>>
stopVars == <<stoppc, stopRef, stopReturned, stopRaised, afterStop>>
sendVars == <<sendpc, sendRef, sendData, nsends, wire, dropped, offline, sendRaised,
              sentStale>>
urlVars == <<chefpc, url, qualified, requalified>>
fetchVars == <<cache, fetchLog>>
retryVars == <<dlpc, maxAttempts, schedule, attemptsMade, fetchResult>>
stepVars == <<persisted, loadedStep, curStep, lastDone, failedStep>>
extVars == <<urlVars, fetchVars, retryVars, stepVars>>
vars == <<mainVars, runVars, handlerVars, stopVars, sendVars, extVars>>

(***************************************************************************)
(* Bounds of the model.                                                    *)
(***************************************************************************)
MaxAttemptLen == 2   \* longest --download-attempts string tried
MaxOpts == 1         \* most OPTIONS arguments tried
MaxSends == 2        \* most send() calls made by the harness
MaxUrlTail == 2      \* longest tail of a URL tried
MaxFetches == 2      \* most pages fetched by the chef
MaxDownloadAttempts == 3 \* largest download_attempts tried
MaxConnCount == 2    \* where the count of created connections saturates

(***************************************************************************)
(* Strings are sequences of one-character strings.                         *)
(***************************************************************************)
RECURSIVE SeqsUpTo(_, _)
SeqsUpTo(S, n) ==
    IF n = 0 THEN {<<>>}
    ELSE LET P == SeqsUpTo(S, n - 1)
         IN  P \cup {Append(p, c) : p \in {q \in P : Len(q) = n - 1}, c \in S}

(***************************************************************************)
(* int(s) on the characters tried: an optional '-' and at least one        *)
(* digit.  (Python's int also takes surrounding whitespace, '+' and '_'    *)
(* between digits; none of these is in AttemptChars.)                      *)
(***************************************************************************)
Digits == {"0", "3"}
AttemptChars == Digits \cup {"-", "a"}
AttemptStrings == SeqsUpTo(AttemptChars, MaxAttemptLen)

DigitVal(c) == IF c = "0" THEN 0 ELSE 3

RECURSIVE DigitsValue(_)
DigitsValue(s) ==
    IF s = <<>> THEN 0
    ELSE 10 * DigitsValue(SubSeq(s, 1, Len(s) - 1)) + DigitVal(s[Len(s)])

AllDigits(s) == Len(s) > 0 /\ \A i \in 1..Len(s) : s[i] \in Digits

\* int(s) does not raise ValueError
IntParses(s) ==
    \/ AllDigits(s)
    \/ (Len(s) > 1 /\ s[1] = "-" /\ AllDigits(Tail(s)))

\* the value of int(s), for s with IntParses(s)
IntValue(s) == IF s[1] = "-" THEN 0 - DigitsValue(Tail(s)) ELSE DigitsValue(s)

(***************************************************************************)
(* arg.split('=') and str.strip()                                          *)
(***************************************************************************)
RECURSIVE Split(_, _)
Split(s, sep) ==
    IF \A i \in 1..Len(s) : s[i] # sep THEN <<s>>
    ELSE LET i == CHOOSE j \in 1..Len(s) :
                      s[j] = sep /\ \A k \in 1..(j - 1) : s[k] # sep
         IN  <<SubSeq(s, 1, i - 1)>> \o Split(SubSeq(s, i + 1, Len(s)), sep)

RECURSIVE Strip(_)
Strip(s) ==
    IF s = <<>> THEN s
    ELSE IF s[1] = " " THEN Strip(Tail(s))
    ELSE IF s[Len(s)] = " " THEN Strip(SubSeq(s, 1, Len(s) - 1))
    ELSE s

\* kwargs.update({k: v}) on a dict held as a set of <<key, value>> pairs
DictUpdate(d, k, v) == {p \in d : p[1] # k} \cup {<<k, v>>}

\* The OPTIONS arguments tried: "k=v", "kv" (no '='), "k= v"
OptTokens == { <<"k", "=", "v">>, <<"k", "v">>, <<"k", "=", " ", "v">> }
OptionLists == SeqsUpTo(OptTokens, MaxOpts)

\* The loop over arguments['OPTIONS']: kwarg[1] raises IndexError for an
\* argument without '=', which is re-raised as InvalidUsageException.
RECURSIVE KwargsOf(_, _)
KwargsOf(opts, acc) ==
    IF opts = <<>> THEN [ok |-> TRUE, kwargs |-> acc]
    ELSE LET kwarg == Split(Head(opts), "=")
         IN  IF Len(kwarg) < 2 THEN [ok |-> FALSE, kwargs |-> acc]
             ELSE KwargsOf(Tail(opts),
                           DictUpdate(acc, Strip(kwarg[1]), Strip(kwarg[2])))

(***************************************************************************)
(* Step names.  A step string is held as its letters in upper case (word)  *)
(* and how it was cased; str.upper() changes the casing only.              *)
(***************************************************************************)
StatusWords == {"LAST", "INIT", "CONSTRUCT_CHANNEL", "CREATE_TREE",
                "DOWNLOAD_FILES", "GET_FILE_DIFF", "START_UPLOAD",
                "UPLOADING_FILES", "UPLOAD_CHANNEL", "PUBLISH_CHANNEL", "DONE"}
Casings == {"upper", "lower", "mixed"}
StepStrings == [word : StatusWords \cup {"BOGUS"}, casing : Casings]
DefaultStep == [word |-> "LAST", casing |-> "lower"]

Upper(s) == [word |-> s.word, casing |-> "upper"]

\* [s.name for s in Status]
all_steps == {[word |-> w, casing |-> "upper"] : w \in StatusWords}

\* the step check without upper(): step not in all_steps
StepInvalidCaseSensitive(step) == step \notin all_steps

\* the test of the step check: step.upper() not in all_steps
StepInvalid(step) == Upper(step) \notin all_steps

(***************************************************************************)
(* docopt(__doc__) on the start-policy part of the usage pattern,          *)
(*   [--resume [--step=<step>] | --reset] ... [--daemon]                   *)
(* as docopt matches it: each pattern element removes what it matches from *)
(* the options given (left); Either takes the alternative that leaves the  *)
(* fewest, the first on a tie; the arguments are accepted when nothing is  *)
(* left.                                                                   *)
(***************************************************************************)
CliOptions == {"--resume", "--step", "--reset", "--daemon"}

\* Required(--resume, Optional(--step))
MatchResume(left) ==
    IF "--resume" \in left
    THEN [matched |-> TRUE, left |-> left \ {"--resume", "--step"}]
    ELSE [matched |-> FALSE, left |-> left]

\* --reset
MatchReset(left) ==
    IF "--reset" \in left
    THEN [matched |-> TRUE, left |-> left \ {"--reset"}]
    ELSE [matched |-> FALSE, left |-> left]

\* the pattern [--resume] [--step=<step>] [--reset]: three independent options
MatchStartPolicyIndependent(left) == left \ {"--resume", "--step", "--reset"}

\* Optional(Either(Required(--resume, Optional(--step)), --reset))
MatchStartPolicy(left) ==
    LET a == MatchResume(left)
        b == MatchReset(left)
    IN  IF a.matched /\ b.matched
        THEN (IF Cardinality(b.left) < Cardinality(a.left) THEN b.left ELSE a.left)
        ELSE IF a.matched THEN a.left
        ELSE IF b.matched THEN b.left
        ELSE left

\* Optional(--daemon)
MatchDaemon(left) == left \ {"--daemon"}

DocoptAccepts(given) == MatchDaemon(MatchStartPolicy(given)) = {}

NoArguments ==
    [daemon |-> FALSE, resume |-> FALSE, reset |-> FALSE,
     step |-> DefaultStep, attempts |-> <<>>, OPTIONS |-> <<>>]

(***************************************************************************)
(* The __main__ block                                                      *)
(***************************************************************************)

\* arguments = docopt(__doc__): the command line is any choice of the
\* start-policy options, --daemon, a --step value, a --download-attempts
\* value and OPTIONS.  docopt raises DocoptExit on a command line the usage
\* pattern does not match.
Docopt ==
    /\ driver = "program" /\ mainpc = "docopt"
    /\ \E given \in SUBSET CliOptions, step \in StepStrings,
          attempts \in AttemptStrings, opts \in OptionLists :
          /\ argv' = given
          /\ IF DocoptAccepts(given)
             THEN /\ arguments' =
                       [daemon |-> "--daemon" \in given,
                        resume |-> "--resume" \in given,
                        reset |-> "--reset" \in given,
                        step |-> IF "--step" \in given THEN step ELSE DefaultStep,
                        attempts |-> attempts,
                        OPTIONS |-> opts]
                  /\ mainpc' = "kwargs"
                  /\ UNCHANGED mainExc
             ELSE /\ mainpc' = "exit"
                  /\ mainExc' = "DocoptExit"
                  /\ UNCHANGED arguments
    /\ UNCHANGED <<driver, kwargs, runVars, handlerVars, stopVars, sendVars>>
    /\ UNCHANGED extVars

\* Parse OPTIONS for keyword arguments
ParseKwargs ==
    /\ mainpc = "kwargs"
    /\ LET r == KwargsOf(arguments.OPTIONS, {})
       IN  IF r.ok
           THEN kwargs' = r.kwargs /\ mainpc' = "step" /\ UNCHANGED mainExc
           ELSE /\ mainpc' = "exit"
                /\ mainExc' = "InvalidUsageException"
                /\ UNCHANGED kwargs
    /\ UNCHANGED <<driver, argv, arguments, runVars, handlerVars, stopVars, sendVars>>
    /\ UNCHANGED extVars

\* Check if step is valid (if provided)
CheckStep ==
    /\ mainpc = "step"
    /\ IF StepInvalid(arguments.step)
       THEN mainpc' = "exit" /\ mainExc' = "InvalidUsageException"
       ELSE mainpc' = "attempts" /\ UNCHANGED mainExc
    /\ UNCHANGED <<driver, argv, arguments, kwargs, runVars, handlerVars, stopVars, sendVars>>
    /\ UNCHANGED extVars

\* the download-attempts check left out
AttemptsInvalidNever(s) == FALSE

\* the test of the download-attempts check: int(...) raises ValueError
AttemptsInvalid(s) == ~IntParses(s)

\* Make sure max-retries can be cast as an integer
CheckDownloadAttempts ==
    /\ mainpc = "attempts"
    /\ IF AttemptsInvalid(arguments.attempts)
       THEN mainpc' = "exit" /\ mainExc' = "InvalidUsageException"
       ELSE mainpc' = "dispatch" /\ UNCHANGED mainExc
    /\ UNCHANGED <<driver, argv, arguments, kwargs, runVars, handlerVars, stopVars, sendVars>>
    /\ UNCHANGED extVars

\* the two branches of the dispatch exchanged
ModeOfSwapped(args) == IF args.daemon THEN "single_run" ELSE "daemon_mode"

\* the mode the dispatch selects: if arguments['--daemon']
ModeOf(args) == IF args.daemon THEN "daemon_mode" ELSE "single_run"

Dispatch ==
    /\ mainpc = "dispatch"
    /\ mainpc' = ModeOf(arguments)
    /\ UNCHANGED <<driver, argv, arguments, kwargs, mainExc, runVars, handlerVars,
                   stopVars, sendVars>>
    /\ UNCHANGED extVars

(***************************************************************************)
(* single_run                                                              *)
(***************************************************************************)

\* what uploadchannel is called with (the opaque flags are left out)
UploadArguments ==
    [download_attempts |-> arguments.attempts, resume |-> arguments.resume,
     reset |-> arguments.reset, step |-> arguments.step, kwargs |-> kwargs]

\* the exceptions uploadchannel may raise: an Exception, or a BaseException
\* that is no Exception (SystemExit, KeyboardInterrupt)
UploadOutcomes == {"returned", "UploadError", "SystemExit"}

\* except Exception: the handler catches Exception and its subclasses only
Caught(e) == e # "SystemExit"

\* close() at the end of the try body and of the except clause instead of in
\* a finally clause: an exception that is not caught skips it
AfterUploadNoFinally(outcome) ==
    IF outcome = "returned" THEN "report_completed"
    ELSE IF Caught(outcome) THEN "report_failure"
    ELSE "exit"

\* where control goes when the call in the try block has ended: on to the
\* next statement, into the except clause, or straight to the finally clause
AfterUpload(outcome) ==
    IF outcome = "returned" THEN "report_completed"
    ELSE IF Caught(outcome) THEN "report_failure"
    ELSE "finally"

\* try: uploadchannel(...)
Uploadchannel ==
    /\ mainpc = "single_run"
    /\ uploadCalls' = Append(uploadCalls, UploadArguments)
    /\ \E outcome \in UploadOutcomes :
          /\ uploadOutcome' = outcome
          /\ exc' = IF outcome = "returned" THEN exc ELSE outcome
          /\ mainpc' = AfterUpload(outcome)
    /\ UNCHANGED <<driver, argv, arguments, kwargs, mainExc, reporter, raisedIn,
                   handlerVars, stopVars, sendVars>>
    /\ UNCHANGED extVars

\* config.SUSHI_BAR_CLIENT.report_stage('COMPLETED', 0), still inside try:
\* an exception it raises is caught by the except clause
ReportCompleted ==
    /\ mainpc = "report_completed"
    /\ reporter' = Append(reporter, "COMPLETED")
    /\ \E ok \in BOOLEAN :
          IF ok
          THEN mainpc' = "finally" /\ UNCHANGED <<exc, raisedIn>>
          ELSE /\ exc' = "ReportCompletedError"
               /\ raisedIn' = raisedIn \cup {"COMPLETED"}
               /\ mainpc' = "report_failure"
    /\ UNCHANGED <<driver, argv, arguments, kwargs, mainExc, uploadCalls,
                   uploadOutcome, handlerVars, stopVars, sendVars>>
    /\ UNCHANGED extVars

\* the except clause without its raise: the caught exception is swallowed
ReraisedNothing(e) == "none"

\* the bare raise that ends the except clause re-raises the caught exception
Reraised(e) == e

\* except Exception as e: report_stage('FAILURE', 0); LOGGER.critical(e); raise
ReportFailure ==
    /\ mainpc = "report_failure"
    /\ reporter' = Append(reporter, "FAILURE")
    /\ \E ok \in BOOLEAN :
          IF ok
          THEN exc' = Reraised(exc) /\ UNCHANGED raisedIn
          ELSE /\ exc' = "ReportFailureError"
               /\ raisedIn' = raisedIn \cup {"FAILURE"}
    /\ mainpc' = "finally"
    /\ UNCHANGED <<driver, argv, arguments, kwargs, mainExc, uploadCalls,
                   uploadOutcome, handlerVars, stopVars, sendVars>>
    /\ UNCHANGED extVars

\* finally: config.SUSHI_BAR_CLIENT.close(); then the exception in flight, if
\* any, leaves single_run (an exception close() raises replaces it)
Close ==
    /\ mainpc = "finally"
    /\ reporter' = Append(reporter, "close")
    /\ \E ok \in BOOLEAN :
          IF ok
          THEN mainExc' = exc /\ UNCHANGED raisedIn
          ELSE mainExc' = "CloseError" /\ raisedIn' = raisedIn \cup {"close"}
    /\ mainpc' = "exit"
    /\ UNCHANGED <<driver, argv, arguments, kwargs, exc, uploadCalls,
                   uploadOutcome, handlerVars, stopVars, sendVars>>
    /\ UNCHANGED extVars

(***************************************************************************)
(* WebSocketHandler.  A connection object (websocket.WebSocketApp) is one  *)
(* of a pool of slots; a slot is reused once nothing refers to its object. *)
(* self.ws, a stop() in progress and a send() in progress each hold one    *)
(* reference, and __connect() builds the new object before it lets the old *)
(* one go.                                                                 *)
(*   conn[s]: "free"        no object                                      *)
(*            "new"         constructed, run_forever() not yet called      *)
(*            "connecting"  run_forever() is connecting                    *)
(*            "open"        connected                                      *)
(*            "dead"        the socket is closed (by the peer, an error or *)
(*                          close()); run_forever() has not yet torn down  *)
(*            "closed"      run_forever() has torn down and returned       *)
(***************************************************************************)
None == 0
NSlots == 4
Slots == 1..NSlots

Referenced(w, a, b) == {w, a, b} \ {None}

\* the states of the objects still referenced; the others are collected
Collect(c, refs) == [s \in Slots |-> IF s \in refs THEN c[s] ELSE "free"]
CollectFlags(k, refs) == [s \in Slots |-> IF s \in refs THEN k[s] ELSE FALSE]

NewSlot ==
    CHOOSE s \in Slots :
        /\ s \notin Referenced(ws, stopRef, sendRef)
        /\ \A t \in Slots : t \notin Referenced(ws, stopRef, sendRef) => s <= t

\* the channel, as the spec names its states
Connected == ws # None /\ conn[ws] = "open"
Connecting == ws # None /\ conn[ws] \in {"new", "connecting"}
Disconnected == ws = None \/ conn[ws] = "closed"

\* cws = ControlWebSocket(): WebSocketHandler.__init__
Construct ==
    /\ mainpc = "daemon_mode"
    /\ cws' = TRUE
    /\ ws_opened' = FALSE
    /\ ws' = None
    /\ stop_event' = FALSE
    /\ mainpc' = "start"
    /\ UNCHANGED <<driver, argv, arguments, kwargs, mainExc, runVars, conn,
                   keep_running, looppc, nconn, stopVars, sendVars>>
    /\ UNCHANGED extVars

\* cws.start(): the thread is started and start() returns
Start ==
    /\ mainpc = "start"
    /\ looppc = "unstarted"
    /\ looppc' = "check"
    /\ mainpc' = "join"
    /\ UNCHANGED <<driver, argv, arguments, kwargs, mainExc, runVars, cws, ws_opened,
                   ws, conn, keep_running, stop_event, nconn, stopVars, sendVars>>
    /\ UNCHANGED extVars

\* cws.join() returns when the thread has ended; daemon_mode then returns
Join ==
    /\ mainpc = "join"
    /\ looppc = "exited"
    /\ mainpc' = "exit"
    /\ UNCHANGED <<driver, argv, arguments, kwargs, mainExc, runVars, handlerVars,
                   stopVars, sendVars>>
    /\ UNCHANGED extVars

\* stopped(): self._stop_event.is_set()
stopped == stop_event

\* an if in place of the while: the thread ends when the first connection
\* has ended
RunTestOnce == IF stopped \/ nconn > 0 THEN "exited" ELSE "connect"

\* the loop test of run(): while not self.stopped()
RunTest == IF stopped THEN "exited" ELSE "connect"

\* run(): while not self.stopped()
RunCheck ==
    /\ looppc = "check"
    /\ looppc' = RunTest
    /\ UNCHANGED <<mainVars, runVars, cws, ws_opened, ws, conn, keep_running,
                   stop_event, nconn, stopVars, sendVars>>
    /\ UNCHANGED extVars

\* self.__connect(): self.ws = websocket.WebSocketApp(...)
Connect ==
    /\ looppc = "connect"
    /\ LET s == NewSlot
           refs == Referenced(s, stopRef, sendRef)
       IN  /\ ws' = s
           /\ conn' = Collect([conn EXCEPT ![s] = "new"], refs)
           /\ keep_running' = CollectFlags([keep_running EXCEPT ![s] = FALSE], refs)
    /\ nconn' = IF nconn < MaxConnCount THEN nconn + 1 ELSE nconn
    /\ afterStop' = (afterStop \/ stopReturned)
    /\ looppc' = "run_forever"
    /\ UNCHANGED <<mainVars, runVars, cws, ws_opened, stop_event, stoppc,
                   stopRef, stopReturned, stopRaised, sendVars>>
    /\ UNCHANGED extVars

\* self.ws.run_forever() is entered: keep_running = True, the socket connects
RunForever ==
    /\ looppc = "run_forever"
    /\ conn' = [conn EXCEPT ![ws] = "connecting"]
    /\ keep_running' = [keep_running EXCEPT ![ws] = TRUE]
    /\ looppc' = "running"
    /\ UNCHANGED <<mainVars, runVars, cws, ws_opened, ws, stop_event, nconn,
                   stopVars, sendVars>>
    /\ UNCHANGED extVars

\* the connection is established: run_forever() calls on_open
on_open ==
    /\ looppc = "running"
    /\ conn[ws] = "connecting"
    /\ conn' = [conn EXCEPT ![ws] = "open"]
    /\ ws_opened' = TRUE
    /\ UNCHANGED <<mainVars, runVars, cws, ws, keep_running, stop_event,
                   looppc, nconn, stopVars, sendVars>>
    /\ UNCHANGED extVars

\* the flag __on_close stores
OnCloseValue == FALSE

\* run_forever() ends: the connection attempt failed, the socket is dead, or
\* close() cleared keep_running; it tears down, calls on_close and returns
on_close ==
    /\ looppc = "running"
    /\ \/ conn[ws] \in {"connecting", "dead"}
       \/ conn[ws] = "open" /\ ~keep_running[ws]
    /\ conn' = [conn EXCEPT ![ws] = "closed"]
    /\ keep_running' = [keep_running EXCEPT ![ws] = FALSE]
    /\ ws_opened' = OnCloseValue
    /\ looppc' = "check"
    /\ UNCHANGED <<mainVars, runVars, cws, ws, stop_event, nconn, stopVars,
                   sendVars>>
    /\ UNCHANGED extVars

\* the peer closes the connection, or the network fails
PeerCloses ==
    /\ ws # None
    /\ conn[ws] = "open"
    /\ conn' = [conn EXCEPT ![ws] = "dead"]
    /\ UNCHANGED <<mainVars, runVars, cws, ws_opened, ws, keep_running,
                   stop_event, looppc, nconn, stopVars, sendVars>>
    /\ UNCHANGED extVars

(***************************************************************************)
(* stop(), called from another thread                                      *)
(***************************************************************************)

\* self._stop_event.set()
StopSet ==
    /\ driver = "harness" /\ cws
    /\ stoppc = "idle"
    /\ stop_event' = TRUE
    /\ stoppc' = "load"
    /\ UNCHANGED <<mainVars, runVars, cws, ws_opened, ws, conn, keep_running,
                   looppc, nconn, stopRef, stopReturned, stopRaised, afterStop,
                   sendVars>>
    /\ UNCHANGED extVars

\* self.ws.close evaluates self.ws; None has no close: AttributeError
StopLoad ==
    /\ stoppc = "load"
    /\ IF ws = None
       THEN stopRaised' = TRUE /\ stoppc' = "idle" /\ UNCHANGED stopRef
       ELSE stopRef' = ws /\ stoppc' = "close" /\ UNCHANGED stopRaised
    /\ UNCHANGED <<mainVars, runVars, handlerVars, stopReturned, afterStop,
                   sendVars>>
    /\ UNCHANGED extVars

\* WebSocketApp.close(): keep_running = False, and the socket, if it is
\* connected, is closed
StopClose ==
    /\ stoppc = "close"
    /\ LET refs == Referenced(ws, None, sendRef)
       IN  /\ conn' = Collect([conn EXCEPT ![stopRef] =
                                  IF @ = "open" THEN "dead" ELSE @], refs)
           /\ keep_running' = CollectFlags([keep_running EXCEPT ![stopRef] = FALSE], refs)
    /\ stopRef' = None
    /\ stopReturned' = TRUE
    /\ stoppc' = "idle"
    /\ UNCHANGED <<mainVars, runVars, cws, ws_opened, ws, stop_event, looppc,
                   nconn, stopRaised, afterStop, sendVars>>
    /\ UNCHANGED extVars

(***************************************************************************)
(* send(data), called from another thread                                  *)
(***************************************************************************)

\* send() without its test
SendAllowedAlways(opened) == TRUE

\* the test of send(): if self.ws_opened
SendAllowed(opened) == opened

\* send() is called and tests self.ws_opened
Send ==
    /\ driver = "harness" /\ cws
    /\ sendpc = "idle"
    /\ nsends < MaxSends
    /\ nsends' = nsends + 1
    /\ offline' = IF Connected \/ (ws # None /\ conn[ws] = "dead")
                  THEN offline ELSE offline \cup {nsends + 1}
    /\ IF SendAllowed(ws_opened)
       THEN sendData' = nsends + 1 /\ sendpc' = "load" /\ UNCHANGED dropped
       ELSE dropped' = dropped \cup {nsends + 1} /\ UNCHANGED <<sendData, sendpc>>
    /\ UNCHANGED <<mainVars, runVars, handlerVars, stopVars, sendRef, wire,
                   sendRaised, sentStale>>
    /\ UNCHANGED extVars

\* self.ws.send evaluates self.ws; None has no send: AttributeError
SendLoad ==
    /\ sendpc = "load"
    /\ IF ws = None
       THEN /\ sendRaised' = sendRaised \cup {sendData}
            /\ sendpc' = "idle" /\ sendData' = 0
            /\ UNCHANGED sendRef
       ELSE sendRef' = ws /\ sendpc' = "send" /\ UNCHANGED <<sendRaised, sendData>>
    /\ UNCHANGED <<mainVars, runVars, handlerVars, stopVars, nsends, wire,
                   dropped, offline, sentStale>>
    /\ UNCHANGED extVars

\* WebSocketApp.send(data): written to the socket of an open connection;
\* WebSocketConnectionClosedException when there is no connected socket.  On
\* a dead socket the write may still be accepted or may fail.
SendWrite ==
    /\ sendpc = "send"
    /\ \E accepted \in BOOLEAN :
          /\ conn[sendRef] = "open" => accepted
          /\ conn[sendRef] \notin {"open", "dead"} => ~accepted
          /\ IF accepted
             THEN wire' = wire \cup {sendData} /\ UNCHANGED sendRaised
             ELSE sendRaised' = sendRaised \cup {sendData} /\ UNCHANGED wire
    /\ LET refs == Referenced(ws, stopRef, None)
       IN  /\ conn' = Collect(conn, refs)
           /\ keep_running' = CollectFlags(keep_running, refs)
    /\ sentStale' = (sentStale \/ conn[sendRef] \in {"closed", "new", "connecting"})
    /\ sendRef' = None
    /\ sendData' = 0
    /\ sendpc' = "idle"
    /\ UNCHANGED <<mainVars, runVars, cws, ws_opened, ws, stop_event, looppc,
                   nconn, stopVars, nsends, dropped, offline>>
    /\ UNCHANGED extVars

(***************************************************************************)
(* examples/oldexamples/large_wikipedia_chef.py                            *)
(*                                                                         *)
(* A URL is the sequence of its characters.                                *)
(***************************************************************************)
startswith(s, prefix) ==
    Len(s) >= Len(prefix) /\ SubSeq(s, 1, Len(prefix)) = prefix

HttpsColon == <<"h", "t", "t", "p", "s", ":">>
WikipediaBase == <<"h", "t", "t", "p", "s", ":", "/", "/", "e", "n", ".", "w", "i", "k", "i", "p", "e", "d", "i", "a", ".", "o", "r", "g">>
Http == <<"h", "t", "t", "p">>

\* what a call gives: the value returned, or the AssertionError raised
Returned(value) == [raised |-> FALSE, value |-> value]
AssertionError == [raised |-> TRUE, value |-> <<>>]

\* make_fully_qualified_url with a protocol-relative URL cut short
make_fully_qualified_url_cut(u) ==
    IF startswith(u, <<"/", "/">>) THEN Returned(Tail(u))
    ELSE IF startswith(u, <<"/">>) THEN Returned(WikipediaBase \o u)
    ELSE IF startswith(u, Http) THEN Returned(u)
    ELSE AssertionError

make_fully_qualified_url(u) ==
    IF startswith(u, <<"/", "/">>) THEN Returned(HttpsColon \o u)
    ELSE IF startswith(u, <<"/">>) THEN Returned(WikipediaBase \o u)
    ELSE IF startswith(u, Http) THEN Returned(u)
    ELSE AssertionError

\* the URLs tried: a head followed by a short tail
UrlHeads ==
    { <<>>, <<"/">>, <<"/", "/">>, <<"h", "t", "t", "p", ":", "/", "/">>, <<"h", "t", "t", "p", "s", ":", "/", "/">>, <<"h", "t", "t", "p">>, <<"h", "t", "t", "p", "s">>,
      <<"f", "t", "p", ":", "/", "/">>, <<"h", "t", "t">>, <<"h">>, <<"x">> }
UrlTails == SeqsUpTo({"a", "/"}, MaxUrlTail)
UrlInputs == { h \o t : h \in UrlHeads, t \in UrlTails }

\* url = make_fully_qualified_url(link["href"]) and
\* make_fully_qualified_url(image["src"])
Qualify ==
    /\ chefpc = "qualify"
    /\ qualified' = make_fully_qualified_url(url)
    /\ chefpc' = IF qualified'.raised THEN "raised" ELSE "qualified"
    /\ UNCHANGED <<mainVars, runVars, handlerVars, stopVars, sendVars, url,
                   requalified, fetchVars, retryVars, stepVars>>

\* the URL that came back is handed to make_fully_qualified_url again
Requalify ==
    /\ chefpc = "qualified"
    /\ requalified' = make_fully_qualified_url(qualified.value)
    /\ chefpc' = "requalified"
    /\ UNCHANGED <<mainVars, runVars, handlerVars, stopVars, sendVars, url,
                   qualified, fetchVars, retryVars, stepVars>>

(***************************************************************************)
(* The session and its cache: sess = requests.Session() with the           *)
(* cache-forever adapter mounted, make_request, get_parsed_html_from_url   *)
(***************************************************************************)
StatusCodes == {200, 404}
Contents == {"b1", "b2"}
ListUrl == WikipediaBase \o <<"/">>

\* sess.mount with basic_adapter in the place of forever_adapter
AdapterForBasic(u) ==
    IF startswith(u, <<"h", "t", "t", "p", ":", "/", "/">>) \/ startswith(u, <<"h", "t", "t", "p", "s", ":", "/", "/">>)
    THEN "basic_adapter" ELSE "none"

\* the adapter the session uses for a URL: the one mounted for its prefix
AdapterFor(u) ==
    IF startswith(u, <<"h", "t", "t", "p", ":", "/", "/">>) \/ startswith(u, <<"h", "t", "t", "p", "s", ":", "/", "/">>)
    THEN "forever_adapter" ELSE "none"

Cached(c, u) == \E e \in c : e[1] = u
Lookup(c, u) == (CHOOSE e \in c : e[1] = u)[2]
Store(c, u, content) == {e \in c : e[1] # u} \cup {<<u, content>>}

Response(status, content, from_cache) ==
    [status_code |-> status, content |-> content, from_cache |-> from_cache]
NoResponse == Response(0, "none", FALSE)

\* how one sess.get(url) can end: a response or an exception of requests,
\* the cache afterwards, and the number of requests put on the network
GetEnds(raised, response, c, net) ==
    [raised |-> raised, response |-> response, cache |-> c, net |-> net]

FromNetwork(c, u) ==
    {GetEnds(TRUE, NoResponse, c, 1)} \cup
    {GetEnds(FALSE, Response(st, b, FALSE),
             IF st = 200 THEN Store(c, u, b) ELSE c, 1) :
         st \in StatusCodes, b \in Contents}

FromCache(c, u, net) == GetEnds(FALSE, Response(200, Lookup(c, u), TRUE), c, net)

SessGet(c, u) ==
    CASE AdapterFor(u) = "none" -> {GetEnds(TRUE, NoResponse, c, 0)}
      [] AdapterFor(u) = "forever_adapter" ->
            IF Cached(c, u) THEN {FromCache(c, u, 0)} ELSE FromNetwork(c, u)
      [] AdapterFor(u) = "basic_adapter" ->
            IF Cached(c, u)
            THEN {FromCache(c, u, 0), FromCache(c, u, 1)} \cup FromNetwork(c, u)
            ELSE FromNetwork(c, u)

\* the line make_request prints
Printed(response) ==
    IF response.status_code # 200 THEN "NOT FOUND:"
    ELSE IF ~response.from_cache THEN "NOT CACHED:"
    ELSE "nothing"

\* make_request raising for a status that is not 200
make_request_checked(response) ==
    IF response.status_code # 200
    THEN [raised |-> TRUE, response |-> NoResponse, printed |-> "nothing"]
    ELSE [raised |-> FALSE, response |-> response, printed |-> Printed(response)]

\* make_request, once sess.get has returned
make_request(response) ==
    [raised |-> FALSE, response |-> response, printed |-> Printed(response)]

\* get_parsed_html_from_url(url): make_request(url).content is parsed
get_parsed_html_from_url ==
    /\ chefpc \in {"qualified", "fetched"}
    /\ Len(fetchLog) < MaxFetches
    /\ \E u \in {qualified.value, ListUrl} : \E g \in SessGet(cache, u) :
          LET r == IF g.raised
                   THEN [raised |-> TRUE, response |-> NoResponse, printed |-> "nothing"]
                   ELSE make_request(g.response)
          IN  /\ cache' = g.cache
              /\ fetchLog' = Append(fetchLog,
                     [url |-> u, net |-> g.net, got |-> g.response,
                      raised |-> r.raised, response |-> r.response,
                      printed |-> r.printed,
                      parsed |-> IF r.raised THEN "none" ELSE r.response.content])
    /\ chefpc' = "fetched"
    /\ UNCHANGED <<mainVars, runVars, handlerVars, stopVars, sendVars, url,
                   qualified, requalified, retryVars, stepVars>>

(***************************************************************************)
(* A download with retries: uploadchannel is given download_attempts, and  *)
(* a fetch inside a step is attempted again after a transient failure.     *)
(***************************************************************************)
AttemptOutcomes == {"ok", "transient", "fatal"}
Schedules == [1..MaxDownloadAttempts -> AttemptOutcomes]

\* one attempt more than download_attempts allows
ExhaustedLate(made, attempts) == made > attempts

\* no attempt is left
Exhausted(made, attempts) == made >= attempts

\* one network attempt, and what follows from its outcome
FetchAttempt ==
    /\ dlpc = "fetching"
    /\ attemptsMade' = attemptsMade + 1
    /\ LET outcome == schedule[attemptsMade + 1]
       IN  fetchResult' =
              IF outcome = "ok" THEN "success"
              ELSE IF outcome = "fatal" THEN "FetchError"
              ELSE IF Exhausted(attemptsMade + 1, maxAttempts)
                   THEN "DownloadExhaustedError"
                   ELSE "none"
    /\ dlpc' = IF fetchResult' = "none" THEN "fetching" ELSE "done"
    /\ UNCHANGED <<mainVars, runVars, handlerVars, stopVars, sendVars, urlVars,
                   fetchVars, maxAttempts, schedule, stepVars>>

(***************************************************************************)
(* The steps inside uploadchannel, and the session record they persist     *)
(***************************************************************************)
StepOrder ==
    <<"INIT", "CONSTRUCT_CHANNEL", "CREATE_TREE", "DOWNLOAD_FILES",
      "GET_FILE_DIFF", "START_UPLOAD", "UPLOADING_FILES", "UPLOAD_CHANNEL",
      "PUBLISH_CHANNEL", "DONE">>
Steps == {StepOrder[i] : i \in 1..Len(StepOrder)}
StepNo(step) ==
    IF step \in Steps THEN CHOOSE i \in 1..Len(StepOrder) : StepOrder[i] = step
    ELSE 0

\* the start policies that pass the checks of the __main__ block
StartPolicies ==
    {[daemon |-> FALSE, resume |-> r, reset |-> t, step |-> Upper(st),
      attempts |-> <<"3">>, OPTIONS |-> <<>>] :
        r \in BOOLEAN, t \in BOOLEAN, st \in {x \in StepStrings : x.casing = "upper"}}

\* the step a run starts at: the explicit step of --resume, else the
\* persisted step, else INIT
StartStep(args, stored) ==
    IF ~args.resume THEN "INIT"
    ELSE IF args.step.word # "LAST" THEN args.step.word
    ELSE IF stored # "none" THEN stored
    ELSE "INIT"

\* the session record written even when the handler raised
PersistAlways(stored, step, returned) == step

\* the session record after a handler has ended: advanced only if it returned
Persist(stored, step, returned) == IF returned THEN step ELSE stored

\* uploadchannel(...) is entered: the session is loaded, or created anew
LoadSession ==
    /\ mainpc = "load_session"
    /\ uploadCalls' = Append(uploadCalls, UploadArguments)
    /\ persisted' = IF arguments.resume THEN persisted ELSE "none"
    /\ loadedStep' = persisted'
    /\ curStep' = StartStep(arguments, persisted)
    /\ mainpc' = "step_handler"
    /\ UNCHANGED <<driver, argv, arguments, kwargs, mainExc, exc, reporter,
                   raisedIn, uploadOutcome, handlerVars, stopVars, sendVars,
                   urlVars, fetchVars, retryVars, lastDone, failedStep>>

\* the handler of the current step runs: it returns, and the advanced
\* session is persisted, or it raises, and uploadchannel raises
StepHandler ==
    /\ mainpc = "step_handler"
    /\ \E returned \in BOOLEAN :
          /\ persisted' = Persist(persisted, curStep, returned)
          /\ IF returned
             THEN /\ lastDone' = curStep
                  /\ UNCHANGED <<failedStep, exc>>
                  /\ IF curStep = "DONE"
                     THEN /\ curStep' = "none"
                          /\ uploadOutcome' = "returned"
                          /\ mainpc' = AfterUpload("returned")
                     ELSE /\ curStep' = StepOrder[StepNo(curStep) + 1]
                          /\ UNCHANGED <<uploadOutcome, mainpc>>
             ELSE /\ failedStep' = curStep
                  /\ curStep' = "none"
                  /\ uploadOutcome' = "UploadError"
                  /\ exc' = "UploadError"
                  /\ mainpc' = AfterUpload("UploadError")
                  /\ UNCHANGED lastDone
    /\ UNCHANGED <<driver, argv, arguments, kwargs, mainExc, reporter, raisedIn,
                   uploadCalls, handlerVars, stopVars, sendVars, urlVars,
                   fetchVars, retryVars, loadedStep>>

(***************************************************************************)
(* Specifications                                                          *)
(***************************************************************************)
InitHandler ==
    /\ ws_opened = FALSE
    /\ ws = None
    /\ conn = [s \in Slots |-> "free"]
    /\ keep_running = [s \in Slots |-> FALSE]
    /\ stop_event = FALSE
    /\ looppc = "unstarted"
    /\ nconn = 0
    /\ stoppc = "idle" /\ stopRef = None
    /\ stopReturned = FALSE /\ stopRaised = FALSE /\ afterStop = FALSE
    /\ sendpc = "idle" /\ sendRef = None /\ sendData = 0 /\ nsends = 0
    /\ wire = {} /\ dropped = {} /\ offline = {} /\ sendRaised = {}
    /\ sentStale = FALSE

NoRetry ==
    /\ dlpc = "none"
    /\ maxAttempts = 0
    /\ schedule = <<>>
    /\ attemptsMade = 0
    /\ fetchResult = "none"

InitRetry ==
    /\ dlpc = "fetching"
    /\ maxAttempts \in 1..MaxDownloadAttempts
    /\ schedule \in Schedules
    /\ attemptsMade = 0
    /\ fetchResult = "none"

NoUrl ==
    /\ chefpc = "none"
    /\ url = <<>>
    /\ qualified = Returned(<<>>)
    /\ requalified = Returned(<<>>)

InitUrl ==
    /\ chefpc = "qualify"
    /\ url \in UrlInputs
    /\ qualified = Returned(<<>>)
    /\ requalified = Returned(<<>>)

Init ==
    /\ \/ driver = "program" /\ mainpc = "docopt" /\ cws = FALSE
       \/ driver = "harness" /\ mainpc = "start" /\ cws = TRUE
       \/ driver = "chef" /\ mainpc = "chef" /\ cws = FALSE
       \/ driver = "download" /\ mainpc = "download" /\ cws = FALSE
       \/ driver = "pipeline" /\ mainpc = "load_session" /\ cws = FALSE
    /\ argv = {}
    /\ IF driver = "pipeline"
       THEN /\ arguments \in StartPolicies
            /\ ~(arguments.resume /\ arguments.reset)
            /\ arguments.step.word # "LAST" => arguments.resume
            /\ arguments.step.word # "BOGUS"
            /\ persisted \in Steps \cup {"none"}
            /\ (~arguments.resume /\ ~arguments.reset) => persisted = "none"
       ELSE arguments = NoArguments /\ persisted = "none"
    /\ loadedStep = "none" /\ curStep = "none"
    /\ lastDone = "none" /\ failedStep = "none"
    /\ kwargs = {}
    /\ mainExc = "none"
    /\ exc = "none"
    /\ reporter = <<>>
    /\ raisedIn = {}
    /\ uploadCalls = <<>>
    /\ uploadOutcome = "none"
    /\ InitHandler
    /\ IF driver = "chef" THEN InitUrl ELSE NoUrl
    /\ cache = {}
    /\ fetchLog = <<>>
    /\ IF driver = "download" THEN InitRetry ELSE NoRetry

Thread == RunCheck \/ Connect \/ RunForever \/ on_open \/ on_close

Next ==
    \/ Docopt \/ ParseKwargs \/ CheckStep \/ CheckDownloadAttempts \/ Dispatch
    \/ Uploadchannel \/ ReportCompleted \/ ReportFailure \/ Close
    \/ Construct \/ Start \/ Join
    \/ RunCheck \/ Connect \/ RunForever \/ on_open \/ on_close
    \/ PeerCloses
    \/ StopSet \/ StopLoad \/ StopClose
    \/ Send \/ SendLoad \/ SendWrite
    \/ Qualify \/ Requalify \/ get_parsed_html_from_url
    \/ FetchAttempt
    \/ LoadSession \/ StepHandler

Spec == Init /\ [][Next]_vars

\* The thread is scheduled fairly, and the endpoint is reachable: a
\* connection attempt that is made again and again succeeds in the end.
SpecLive == Spec /\ WF_vars(Thread) /\ SF_vars(on_open)

(***************************************************************************)
(* Properties of single_run                                                *)
(***************************************************************************)
Reported(stage) == \E i \in 1..Len(reporter) : reporter[i] = stage
SingleRunEnded == mainpc = "exit" /\ uploadCalls # <<>>
UploadRaised == uploadOutcome \in {"UploadError", "SystemExit"}

\* C1 as stated: 'COMPLETED' is reported only if uploadchannel returned
\* without raising; if uploadchannel raises, single_run reports 'FAILURE' and
\* the exception that leaves single_run is the one uploadchannel raised.
C1_FailureReportedAndSameExceptionRaised ==
    /\ Reported("COMPLETED") => uploadOutcome = "returned"
    /\ (SingleRunEnded /\ UploadRaised) =>
           (Reported("FAILURE") /\ mainExc = uploadOutcome)

\* C1 as amended: 'COMPLETED' is reported only if uploadchannel returned
\* without raising.  If uploadchannel raises, single_run never returns
\* normally: it reports 'FAILURE' when the exception is an Exception (not for
\* SystemExit or KeyboardInterrupt), and the exception that leaves it is the
\* one uploadchannel raised provided report_stage('FAILURE') and close()
\* return; otherwise it is the exception those calls raised.
C1_CompletedOnlyOnReturnAndRaiseNeverSwallowed ==
    /\ Reported("COMPLETED") => uploadOutcome = "returned"
    /\ (SingleRunEnded /\ UploadRaised) =>
           /\ mainExc # "none"
           /\ Reported("FAILURE") <=> uploadOutcome = "UploadError"
           /\ raisedIn = {} => mainExc = uploadOutcome
           /\ raisedIn # {} => mainExc \in {"ReportFailureError", "CloseError"}

\* uploadchannel raised, 'FAILURE' was reported, and the same exception left
C1_Witness ==
    /\ SingleRunEnded
    /\ uploadOutcome = "UploadError"
    /\ reporter = <<"FAILURE", "close">>
    /\ mainExc = "UploadError"

\* C2: on every exit path of single_run (uploadchannel returns, uploadchannel
\* raises, a report_stage call raises) close() is called exactly once, after
\* every report_stage call of the run.
C2_CloseOnceAndLast ==
    /\ \A i \in 1..Len(reporter) : reporter[i] = "close" => i = Len(reporter)
    /\ SingleRunEnded =>
           (reporter # <<>> /\ reporter[Len(reporter)] = "close")

\* the exit path on which report_stage('COMPLETED') itself raised
C2_Witness ==
    /\ SingleRunEnded
    /\ "COMPLETED" \in raisedIn
    /\ reporter = <<"COMPLETED", "FAILURE", "close">>

(***************************************************************************)
(* Properties of WebSocketHandler                                          *)
(***************************************************************************)

C4_ReconnectsUntilStopped ==
    (looppc \notin {"unstarted", "exited"} /\ ~ws_opened /\ ~stop_event)
        ~> (ws_opened \/ stop_event)

\* the channel is connected on a connection that is not its first one,
\* without stop() having been called
C4_Witness == ws_opened /\ Connected /\ nconn >= 2 /\ ~stop_event

\* C5: stop() returns without raising in every channel state, and sets the
\* stopped flag.
C5_StopNeverRaises ==
    /\ ~stopRaised
    /\ (stopReturned \/ stopRaised) => stop_event

\* C6: no connection is created after a stop() call has returned.
C6_NoConnectionCreatedAfterStop == ~afterStop

(***************************************************************************)
(* Properties of the __main__ block                                        *)
(***************************************************************************)
ModeEntered ==
    /\ driver = "program"
    /\ \/ mainpc \in {"single_run", "report_completed", "report_failure",
                      "finally", "daemon_mode", "start", "join"}
       \/ uploadCalls # <<>>
       \/ cws
DaemonEntered == driver = "program" /\ (cws \/ mainpc = "daemon_mode")
SingleRunEntered ==
    /\ driver = "program"
    /\ \/ mainpc \in {"single_run", "report_completed", "report_failure", "finally"}
       \/ uploadCalls # <<>>
\* docopt accepted the command line and the OPTIONS loop has passed
KwargsParsed ==
    driver = "program" /\ mainpc \notin {"docopt", "kwargs"}
        /\ mainExc # "DocoptExit" /\ KwargsOf(arguments.OPTIONS, {}).ok
StepNamesAStatus(step) == step.word \in StatusWords

\* C7: with --daemon the control channel is started, start() returns at once
\* (no connection exists yet), daemon_mode returns only once the thread has
\* ended, and uploadchannel and the status reporter are never called; without
\* --daemon single_run runs and no handler is ever constructed or started.
C7_ModesAreExclusive ==
    /\ [](ModeEntered =>
            /\ DaemonEntered <=> arguments.daemon
            /\ SingleRunEntered <=> ~arguments.daemon
            /\ DaemonEntered => (uploadCalls = <<>> /\ reporter = <<>>)
            /\ SingleRunEntered => (~cws /\ looppc = "unstarted" /\ ws = None))
    /\ []((cws /\ mainpc = "exit") => looppc = "exited")
    /\ [][(mainpc = "start" /\ mainpc' = "join") =>
            (looppc' = "check" /\ ws' = None /\ ~ws_opened')]_vars

\* the program blocked in join() while the thread holds an open connection
C7_Witness ==
    driver = "program" /\ arguments.daemon /\ mainpc = "join" /\ Connected

\* C8 as stated: a --download-attempts value that does not parse as a
\* positive integer never gets as far as daemon_mode or single_run.
C8_OnlyPositiveAttemptsRun ==
    ModeEntered =>
        (IntParses(arguments.attempts) /\ IntValue(arguments.attempts) > 0)

\* C8 as amended: a --download-attempts value that does not parse as an
\* integer makes the program fail with InvalidUsageException before
\* daemon_mode or single_run is started; zero and negative integers are
\* accepted.
C8_OnlyIntegerAttemptsRun ==
    /\ ModeEntered => IntParses(arguments.attempts)
    /\ (KwargsParsed /\ mainpc \notin {"step", "attempts"}
            /\ ~IntParses(arguments.attempts)) =>
           (mainpc = "exit" /\ mainExc = "InvalidUsageException" /\ ~ModeEntered)

\* a valid command line but for a non-numeric --download-attempts, rejected
C8_Witness ==
    /\ KwargsParsed /\ StepNamesAStatus(arguments.step)
    /\ ~IntParses(arguments.attempts)
    /\ mainpc = "exit" /\ mainExc = "InvalidUsageException"

\* C9: a --step value that is not a Status name, whatever its case, raises
\* InvalidUsageException before daemon_mode or single_run is started, in
\* both modes; every Status name, in any case, passes the check, and
\* uploadchannel is called with the step as given.
C9_OnlyStatusNamesRun ==
    /\ ModeEntered => StepNamesAStatus(arguments.step)
    /\ (KwargsParsed /\ mainpc # "step" /\ ~StepNamesAStatus(arguments.step)) =>
           (mainpc = "exit" /\ mainExc = "InvalidUsageException" /\ ~ModeEntered)
    /\ (KwargsParsed /\ mainpc = "exit" /\ mainExc = "InvalidUsageException"
            /\ IntParses(arguments.attempts)) =>
           ~StepNamesAStatus(arguments.step)
    /\ \A i \in 1..Len(uploadCalls) : uploadCalls[i].step = arguments.step

\* daemon mode asked for with an unknown step: rejected
C9_Witness ==
    /\ KwargsParsed /\ arguments.daemon
    /\ arguments.step.word = "BOGUS"
    /\ mainpc = "exit" /\ mainExc = "InvalidUsageException"

\* the two rules of the start policy
StartPolicyViolated(given) ==
    \/ ("--resume" \in given /\ "--reset" \in given)
    \/ ("--step" \in given /\ "--resume" \notin given)

\* C10: a command line with both --resume and --reset, or with --step but
\* not --resume, fails with a usage error before uploadchannel is called or
\* a mode is started; every other combination is accepted by docopt.
C10_StartPolicyEnforced ==
    (driver = "program" /\ mainpc # "docopt") =>
        /\ StartPolicyViolated(argv) =>
               (mainpc = "exit" /\ mainExc = "DocoptExit" /\ ~ModeEntered)
        /\ ~StartPolicyViolated(argv) => mainExc # "DocoptExit"

\* --step given with --reset and without --resume: rejected
C10_Witness ==
    /\ argv = {"--step", "--reset"}
    /\ mainpc = "exit" /\ mainExc = "DocoptExit"

(***************************************************************************)
(* Properties of make_fully_qualified_url                                  *)
(***************************************************************************)
Qualified == chefpc \in {"qualified", "raised", "requalified"}
AbsoluteUrl(u) == startswith(u, <<"h", "t", "t", "p", ":", "/", "/">>) \/ startswith(u, <<"h", "t", "t", "p", "s", ":", "/", "/">>)

\* C11: make_fully_qualified_url maps a protocol-relative URL '//host/path'
\* to 'https://host/path' and a root-relative URL '/path' to
\* 'https://en.wikipedia.org/path', returns an absolute http(s) URL unchanged,
\* and rejects every other input with an error.
C11_QualifiesOrRejects ==
    Qualified =>
        IF startswith(url, <<"/", "/">>)
        THEN qualified = Returned(HttpsColon \o url)
        ELSE IF startswith(url, <<"/">>)
        THEN qualified = Returned(WikipediaBase \o url)
        ELSE IF AbsoluteUrl(url)
        THEN qualified = Returned(url)
        ELSE qualified.raised

\* C19: make_fully_qualified_url is idempotent on every input it accepts: the
\* result starts with 'http', and a second application returns that result
\* unchanged, without an error.
C19_QualifyingIsIdempotent ==
    /\ (Qualified /\ ~qualified.raised) => startswith(qualified.value, Http)
    /\ chefpc = "requalified" => requalified = Returned(qualified.value)

\* a root-relative URL was qualified, and the result was qualified again
C19_Witness ==
    /\ chefpc = "requalified"
    /\ startswith(url, <<"/">>)
    /\ qualified.value # url
    /\ requalified.value = qualified.value

(***************************************************************************)
(* Properties of make_request and of the session cache                     *)
(***************************************************************************)
Fetches == 1..Len(fetchLog)

\* C12 as stated: a fetch whose status is not 2xx reaches the caller of
\* make_request as an error carrying the status, never as an ordinary
\* response whose content is then used.
C12_BadStatusIsRaised ==
    \A i \in Fetches :
        (fetchLog[i].got # NoResponse /\ fetchLog[i].got.status_code # 200) =>
            (fetchLog[i].raised /\ fetchLog[i].parsed = "none")

\* C12 as amended: make_request returns whatever response sess.get returned;
\* a status other than 200 only makes it print 'NOT FOUND:', and
\* get_parsed_html_from_url parses the content of that response like any
\* other.  The caller sees an exception only when sess.get itself raised.
C12_BadStatusIsPrintedAndReturned ==
    \A i \in Fetches :
        /\ fetchLog[i].raised <=> fetchLog[i].got = NoResponse
        /\ ~fetchLog[i].raised =>
              /\ fetchLog[i].response = fetchLog[i].got
              /\ fetchLog[i].parsed = fetchLog[i].got.content
              /\ fetchLog[i].printed = "NOT FOUND:" <=>
                     fetchLog[i].got.status_code # 200

\* a 404 response was returned and its content parsed
C12_Witness ==
    \E i \in Fetches :
        /\ fetchLog[i].got.status_code = 404
        /\ ~fetchLog[i].raised
        /\ fetchLog[i].parsed \in Contents
        /\ fetchLog[i].printed = "NOT FOUND:"

SameUrlTwice(i, j) == i < j /\ fetchLog[i].url = fetchLog[j].url
ServedFromCache(j) ==
    /\ ~fetchLog[j].raised
    /\ fetchLog[j].response.from_cache
    /\ fetchLog[j].net = 0

\* C13 as stated: with the cache-forever policy mounted, fetching the same
\* URL twice returns identical bytes, and the second fetch is served from the
\* cache without any network call.
C13_SecondFetchAlwaysFromCache ==
    \A i, j \in Fetches :
        SameUrlTwice(i, j) =>
            /\ ~fetchLog[i].raised
            /\ ServedFromCache(j)
            /\ fetchLog[j].response.content = fetchLog[i].response.content

\* C13 as amended: with the cache-forever policy mounted, once a fetch of a
\* URL has returned a 200 response, every later fetch of that URL returns the
\* same bytes, is reported as served from the cache and makes no network
\* call: the stored entry is never revalidated.  A fetch that raised or
\* returned another status stores nothing, and the next fetch of that URL
\* goes to the network again.
C13_StoredEntryServedForever ==
    \A i, j \in Fetches :
        (SameUrlTwice(i, j) /\ ~fetchLog[i].raised
            /\ fetchLog[i].response.status_code = 200) =>
            /\ ServedFromCache(j)
            /\ fetchLog[j].response.content = fetchLog[i].response.content

\* a URL was fetched from the network, then served from the cache
C13_Witness ==
    /\ Len(fetchLog) = 2
    /\ fetchLog[1].url = fetchLog[2].url
    /\ fetchLog[1].net = 1 /\ fetchLog[1].response.status_code = 200
    /\ ServedFromCache(2)
    /\ fetchLog[2].response.content = fetchLog[1].response.content

(***************************************************************************)
(* Properties of a download with retries                                   *)
(***************************************************************************)
FailFailSucceed ==
    schedule[1] = "transient" /\ schedule[2] = "transient" /\ schedule[3] = "ok"
AllTransient(n) == \A k \in 1..n : schedule[k] = "transient"

HandlerRaised == failedStep # "none"
LastCompleted == IF lastDone # "none" THEN lastDone ELSE loadedStep

C16_SendOnlyOnOpenConnection == ~sentStale

(***************************************************************************)
(* Properties of ws_opened                                                 *)
(***************************************************************************)
JustReplaced == looppc = "run_forever"
ClosedByProgram(c) == conn[c] = "closed" \/ ~keep_running[c]

\* C17: in every reachable state ws_opened is true only if self.ws is not
\* None and the current connection has been opened and not yet closed (by
\* close() or by the end of run_forever(); a socket the peer has just dropped
\* is not counted as closed); ws_opened is false right after __connect() has
\* replaced self.ws.
C17_OpenedOnlyWhileOpen ==
    /\ ws_opened =>
          /\ ws # None
          /\ conn[ws] \in {"open", "dead"}
          /\ ~ClosedByProgram(ws)
    /\ JustReplaced => ~ws_opened

(***************************************************************************)
(* Properties of the terminal status                                       *)
(***************************************************************************)

\* C18: in one execution of single_run at most one terminal status is
\* reported: report_stage('COMPLETED') and report_stage('FAILURE') are never
\* both invoked, also when a report_stage call itself raises.
C18_AtMostOneTerminalStatus ==
    ~(Reported("COMPLETED") /\ Reported("FAILURE"))
====
